---------------------------- MODULE Spec2Model ----------------------------
(***************************************************************************)
(* A model of src/src/compiler.js: the four stages getTokens,              *)
(* getAbstractSyntexTree, getTransformedAbstractSyntaxTree (driven by      *)
(* traverse) and getGeneratedCode, run one after the other as the script   *)
(* at the end of the file runs them.                                       *)
(*                                                                         *)
(* Text is a sequence of one-character strings.  A cursor is 0-based as in *)
(* the source; subscripting a JavaScript string or array outside its range *)
(* gives undefined, which is the value Undefined here.  The members of an  *)
(* AST node are the source's (type, value, name, params, body, callee,     *)
(* arguments, expression).  A node of the source tree is identified by its *)
(* path, the sequence of child indices leading to it from the root, and    *)
(* the _context member the transformer attaches to a node is the entry of  *)
(* the function context at the node's path.                                *)
(***************************************************************************)
EXTENDS Integers, Sequences, FiniteSets, TLC

VARIABLES
  stage,       \* the function the program is in ("exit": the script ended)
  thrown,      \* the exception that ended the program, NoError if none
  input,       \* getTokens: the argument
  current,     \* getTokens: let current
  tokens,      \* getTokens: let tokens; then getAbstractSyntexTree's argument
  char,        \* getTokens: let char
  type,        \* getTokens: let type
  value,       \* getTokens: let value
  lpc,         \* getTokens: the loop the scan is in
  astCurrent,  \* getAbstractSyntexTree: let current
  walkStack,   \* getAbstractSyntexTree: the nodes of the active walk() calls
  ast,         \* the source tree (getAbstractSyntexTree: let ast)
  context,     \* the _context members of the source tree's nodes, by path
  newAst,      \* getTransformedAbstractSyntaxTree: let newAst
  visitor,     \* traverse: the argument visitor
  tstack,      \* traverse: the active traverseNode() calls
  log,         \* the calls a recording visitor received, in order
  code,        \* the script's const code
  given        \* the forest the input text was written from (<<>> if none)

vars == <<stage, thrown, input, current, tokens, char, type, value, lpc,
          astCurrent, walkStack, ast, context, newAst, visitor, tstack, log,
          code, given>>

lexVars == <<input, current, tokens, char, type, value, lpc>>
parseVars == <<astCurrent, walkStack, ast>>
travVars == <<context, newAst, visitor, tstack, log>>

----------------------------------------------------------------------------
(* Bounds of the model. *)

\* the longest input text drawn from LexAlphabet
MaxLen == 4
\* the most nodes in a forest a well-formed input text is written from
MaxNodes == 4
\* how far past the end of the input the scan is followed
MaxOverrun == 2
\* the most nodes below the root of a tree handed to traverse directly
MaxTravNodes == 3

----------------------------------------------------------------------------
(* JavaScript values. *)

Undefined == "undefined"
UndefinedText == <<"u", "n", "d", "e", "f", "i", "n", "e", "d">>
Null == <<0>>

NoError == [error |-> "none", message |-> "none"]
TypeError(message) == [error |-> "TypeError", message |-> message]
\* the TypeError the engine raises on reading a member of undefined or null
ReadOfUndefined == TypeError("cannot read properties of undefined")

Digits == {"0", "1", "2", "3", "4", "5", "6", "7", "8", "9"}
LowerCase == {"a", "b", "c", "d", "e", "f", "g", "h", "i", "j", "k", "l",
              "m", "n", "o", "p", "q", "r", "s", "t", "u", "v", "w", "x",
              "y", "z"}
UpperCase == {"A", "B", "C", "D", "E", "F", "G", "H", "I", "J", "K", "L",
              "M", "N", "O", "P", "Q", "R", "S", "T", "U", "V", "W", "X",
              "Y", "Z"}
Quote == "\""

\* RegExp.prototype.test converts its argument to a string: undefined is
\* tested as the text "undefined", which holds letters and neither a digit
\* nor whitespace.
NUMBERS(c) == c \in Digits
LETTERS(c) == c = Undefined \/ c \in LowerCase \cup UpperCase
WHITESPACE(c) == c \in {" ", "\t", "\n", "\r", "\f"}

\* value += char
Concat(v, c) == IF c = Undefined THEN v \o UndefinedText ELSE Append(v, c)

\* input[i]
CharAt(i) == IF i < Len(input) THEN input[i + 1] ELSE Undefined

----------------------------------------------------------------------------
(* getTokens *)

ResetLocals == char' = Undefined /\ type' = Undefined /\ value' = <<>>

\* whitespace is skipped
LexWhitespace ==
  /\ stage = "getTokens" /\ lpc = "loop" /\ current < Len(input)
  /\ WHITESPACE(CharAt(current))
  /\ current' = current + 1
  /\ UNCHANGED <<stage, thrown, input, tokens, char, type, value, lpc>>
  /\ UNCHANGED <<parseVars, travVars, code, given>>

\* a digit opens the number loop
LexNumber ==
  /\ stage = "getTokens" /\ lpc = "loop" /\ current < Len(input)
  /\ NUMBERS(CharAt(current))
  /\ char' = CharAt(current) /\ type' = "number" /\ value' = <<>>
  /\ lpc' = "number"
  /\ UNCHANGED <<stage, thrown, input, current, tokens>>
  /\ UNCHANGED <<parseVars, travVars, code, given>>

\* one turn of while (NUMBERS.test(char))
LexNumberStep ==
  /\ stage = "getTokens" /\ lpc = "number"
  /\ NUMBERS(char)
  /\ current < Len(input) + MaxOverrun
  /\ value' = Concat(value, char)
  /\ char' = CharAt(current + 1)
  /\ current' = current + 1
  /\ UNCHANGED <<stage, thrown, input, tokens, type, lpc>>
  /\ UNCHANGED <<parseVars, travVars, code, given>>

LexNumberPush ==
  /\ stage = "getTokens" /\ lpc = "number"
  /\ ~NUMBERS(char)
  /\ tokens' = Append(tokens, [type |-> type, value |-> value])
  /\ lpc' = "loop"
  /\ ResetLocals
  /\ UNCHANGED <<stage, thrown, input, current>>
  /\ UNCHANGED <<parseVars, travVars, code, given>>

\* a double quote opens the string loop
LexString ==
  /\ stage = "getTokens" /\ lpc = "loop" /\ current < Len(input)
  /\ CharAt(current) = Quote
  /\ type' = "string" /\ value' = <<>>
  /\ char' = CharAt(current + 1)
  /\ current' = current + 1
  /\ lpc' = "string"
  /\ UNCHANGED <<stage, thrown, input, tokens>>
  /\ UNCHANGED <<parseVars, travVars, code, given>>

\* one turn of while (char !== '"')
LexStringStep ==
  /\ stage = "getTokens" /\ lpc = "string"
  /\ char # Quote
  /\ current < Len(input) + MaxOverrun
  /\ value' = Concat(value, char)
  /\ char' = CharAt(current + 1)
  /\ current' = current + 1
  /\ UNCHANGED <<stage, thrown, input, tokens, type, lpc>>
  /\ UNCHANGED <<parseVars, travVars, code, given>>

LexStringPush ==
  /\ stage = "getTokens" /\ lpc = "string"
  /\ char = Quote
  /\ current' = current + 1
  /\ tokens' = Append(tokens, [type |-> type, value |-> value])
  /\ lpc' = "loop"
  /\ ResetLocals
  /\ UNCHANGED <<stage, thrown, input>>
  /\ UNCHANGED <<parseVars, travVars, code, given>>

\* a letter opens the name loop
LexName ==
  /\ stage = "getTokens" /\ lpc = "loop" /\ current < Len(input)
  /\ LETTERS(CharAt(current))
  /\ char' = CharAt(current) /\ type' = "name" /\ value' = <<>>
  /\ lpc' = "name"
  /\ UNCHANGED <<stage, thrown, input, current, tokens>>
  /\ UNCHANGED <<parseVars, travVars, code, given>>

\* one turn of while (LETTERS.test(char))
LexNameStep ==
  /\ stage = "getTokens" /\ lpc = "name"
  /\ LETTERS(char)
  /\ current < Len(input) + MaxOverrun
  /\ value' = Concat(value, char)
  /\ char' = CharAt(current + 1)
  /\ current' = current + 1
  /\ UNCHANGED <<stage, thrown, input, tokens, type, lpc>>
  /\ UNCHANGED <<parseVars, travVars, code, given>>

LexNamePush ==
  /\ stage = "getTokens" /\ lpc = "name"
  /\ ~LETTERS(char)
  /\ tokens' = Append(tokens, [type |-> type, value |-> value])
  /\ lpc' = "loop"
  /\ ResetLocals
  /\ UNCHANGED <<stage, thrown, input, current>>
  /\ UNCHANGED <<parseVars, travVars, code, given>>

\* the type and value the last push of the loop body appends for a character
\* no branch above took: a parenthesis set both, any other character neither
FallThroughToken(c) ==
  IF c \in {"(", ")"} THEN [type |-> "paren", value |-> <<c>>]
  ELSE [type |-> Undefined, value |-> <<>>]

LexPush ==
  /\ stage = "getTokens" /\ lpc = "loop" /\ current < Len(input)
  /\ LET c == CharAt(current) IN
       /\ ~WHITESPACE(c) /\ ~NUMBERS(c) /\ c # Quote /\ ~LETTERS(c)
       /\ tokens' = Append(tokens, FallThroughToken(c))
  /\ current' = current + 1
  /\ UNCHANGED <<stage, thrown, input, char, type, value, lpc>>
  /\ UNCHANGED <<parseVars, travVars, code, given>>

\* return tokens, and the script calls getAbstractSyntexTree(tokens)
LexReturn ==
  /\ stage = "getTokens" /\ lpc = "loop" /\ current >= Len(input)
  /\ lpc' = "returned"
  /\ stage' = "getAbstractSyntexTree"
  /\ UNCHANGED <<thrown, input, current, tokens, char, type, value>>
  /\ UNCHANGED <<parseVars, travVars, code, given>>

getTokens ==
  \/ LexWhitespace \/ LexNumber \/ LexNumberStep \/ LexNumberPush
  \/ LexString \/ LexStringStep \/ LexStringPush
  \/ LexName \/ LexNameStep \/ LexNamePush
  \/ LexPush \/ LexReturn

----------------------------------------------------------------------------
(* getAbstractSyntexTree *)

NumberLiteral(v) == [type |-> "NumberLiteral", value |-> v]
StringLiteral(v) == [type |-> "StringLiteral", value |-> v]
CallNode(n, ps) == [type |-> "CallExpression", name |-> n, params |-> ps]
SourceProgram(b) == [type |-> "Program", body |-> b]

\* tokens[i] of a walk() call; the caller has checked i < tokens.length
TokenAt(i) == tokens[i + 1]

IsOpenParen(t) == t.type = "paren" /\ t.value = <<"(">>
IsCloseParen(t) == t.type = "paren" /\ t.value = <<")">>

\* walk() is entered from the Program loop, which tests current <
\* tokens.length, or from the params loop of the innermost active call, which
\* tests the token at the cursor and nothing else
AtProgramLoop == stage = "getAbstractSyntexTree" /\ walkStack = <<>>
AtParamsLoop == stage = "getAbstractSyntexTree" /\ walkStack # <<>>

\* the node a walk() call returns goes to the params of the call that asked
\* for it, or to ast.body
Deliver(node, stack) ==
  IF stack = <<>>
  THEN /\ ast' = [ast EXCEPT !.body = Append(@, node)]
       /\ walkStack' = stack
  ELSE /\ walkStack' = [stack EXCEPT ![Len(stack)].params = Append(@, node)]
       /\ ast' = ast

\* a parser that makes a NumberLiteral of a string token too
LiteralAlwaysNumber(t) == NumberLiteral(t.value)

\* the literal a number or string token becomes
LiteralOf(t) ==
  IF t.type = "number" THEN NumberLiteral(t.value) ELSE StringLiteral(t.value)

\* walk() on a number or a string token
WalkLiteral ==
  /\ stage = "getAbstractSyntexTree"
  /\ astCurrent < Len(tokens)
  /\ TokenAt(astCurrent).type \in {"number", "string"}
  /\ astCurrent' = astCurrent + 1
  /\ Deliver(LiteralOf(TokenAt(astCurrent)), walkStack)
  /\ UNCHANGED <<stage, thrown, lexVars, travVars, code, given>>

\* the name of a call is the value of the token after the parenthesis
CallName(t) == t.value

\* walk() on an opening parenthesis: the next token names the call, and the
\* params loop starts at the token after it
WalkCall ==
  /\ stage = "getAbstractSyntexTree"
  /\ astCurrent < Len(tokens)
  /\ IsOpenParen(TokenAt(astCurrent))
  /\ IF astCurrent + 1 < Len(tokens)
     THEN /\ walkStack' =
               Append(walkStack, CallNode(CallName(TokenAt(astCurrent + 1)), <<>>))
          /\ astCurrent' = astCurrent + 2
          /\ UNCHANGED <<stage, thrown>>
     ELSE \* tokens[++current] is undefined and token.value throws
          /\ astCurrent' = astCurrent + 1
          /\ thrown' = ReadOfUndefined
          /\ stage' = "exit"
          /\ UNCHANGED walkStack
  /\ UNCHANGED <<ast, lexVars, travVars, code, given>>

\* the params loop ends at a closing parenthesis: the call's node is returned
WalkReturn ==
  /\ AtParamsLoop
  /\ astCurrent < Len(tokens)
  /\ IsCloseParen(TokenAt(astCurrent))
  /\ astCurrent' = astCurrent + 1
  /\ Deliver(walkStack[Len(walkStack)], SubSeq(walkStack, 1, Len(walkStack) - 1))
  /\ UNCHANGED <<stage, thrown, lexVars, travVars, code, given>>

\* walk() on a token that no branch takes: throw new TypeError(token.type)
WalkThrow ==
  /\ stage = "getAbstractSyntexTree"
  /\ astCurrent < Len(tokens)
  /\ LET t == TokenAt(astCurrent) IN
       /\ t.type \notin {"number", "string"}
       /\ ~IsOpenParen(t)
       /\ AtParamsLoop => ~IsCloseParen(t)
       /\ thrown' = TypeError(t.type)
  /\ stage' = "exit"
  /\ UNCHANGED <<parseVars, lexVars, travVars, code, given>>

\* the params loop reads tokens[current] past the last token: token is
\* undefined and token.type throws
WalkPastEnd ==
  /\ AtParamsLoop
  /\ astCurrent >= Len(tokens)
  /\ thrown' = ReadOfUndefined
  /\ stage' = "exit"
  /\ UNCHANGED <<parseVars, lexVars, travVars, code, given>>

\* the Program loop ends: return ast, and the script calls
\* getTransformedAbstractSyntaxTree(ast)
ParseReturn ==
  /\ AtProgramLoop
  /\ astCurrent >= Len(tokens)
  /\ stage' = "getTransformedAbstractSyntaxTree"
  /\ UNCHANGED <<thrown, parseVars, lexVars, travVars, code, given>>

getAbstractSyntexTree ==
  \/ WalkLiteral \/ WalkCall \/ WalkReturn \/ WalkThrow \/ WalkPastEnd
  \/ ParseReturn

----------------------------------------------------------------------------
(* traverse *)

\* node.body of a Program, node.params of a CallExpression
Children(node) == IF node.type = "Program" THEN node.body ELSE node.params

RECURSIVE NodeAt(_, _)
\* the node of the tree at a path
NodeAt(root, path) ==
  IF path = <<>> THEN root
  ELSE NodeAt(Children(root)[path[1]], Tail(path))

\* the transformer's visitor has an enter method for the two literals and
\* for CallExpression and no exit method; a recording visitor names the
\* variants it has each method for
TransformVisitor ==
  [kind |-> "transform",
   enter |-> {"NumberLiteral", "StringLiteral", "CallExpression"},
   exit |-> {}]

\* methods && methods.enter, methods && methods.exit
HasEnter(v, t) == t \in v.enter
HasExit(v, t) == t \in v.exit

TopFrame == tstack[Len(tstack)]
SetTop(f) == [tstack EXCEPT ![Len(tstack)] = f]

----------------------------------------------------------------------------
(* getTransformedAbstractSyntaxTree: the target tree and the visitor *)

TargetProgram(b) == [type |-> "Program", body |-> b]
Identifier(n) == [type |-> "Identifier", name |-> n]
CallExpression(n) ==
  [type |-> "CallExpression", callee |-> Identifier(n), arguments |-> <<>>]
ExpressionStatement(e) == [type |-> "ExpressionStatement", expression |-> e]

(* A _context is a reference to an array of the target tree: newAst.body is *)
(* the reference <<>>, and the arguments of the call at index i of the      *)
(* array r is the reference r \o <<i>>.  Arrays only grow at their end, so  *)
(* an index keeps naming the same element.                                  *)

\* a reference to an array that is no part of the target tree
Detached == <<0>>

RECURSIVE ArrayAt(_, _)
\* the array a reference names, found from an array of the target tree
ArrayAt(array, ref) ==
  IF ref = <<>> THEN array
  ELSE LET e == array[ref[1]]
           call == IF e.type = "ExpressionStatement" THEN e.expression ELSE e
       IN ArrayAt(call.arguments, Tail(ref))

RECURSIVE PushAt(_, _, _)
\* array.push(node) on the array a reference names
PushAt(array, ref, node) ==
  IF ref = <<>> THEN Append(array, node)
  ELSE LET e == array[ref[1]] IN
       IF e.type = "ExpressionStatement"
       THEN [array EXCEPT ![ref[1]].expression.arguments = PushAt(@, Tail(ref), node)]
       ELSE [array EXCEPT ![ref[1]].arguments = PushAt(@, Tail(ref), node)]

\* a transformer that wraps every call, whatever its parent
ParentIsAnything(parentType) == TRUE

\* the test that decides whether a call is wrapped in a statement
ParentIsNotCall(parentType) == parentType # "CallExpression"

\* the (possibly wrapped) expression CallExpression.enter pushes
Wrapped(node, parentType) ==
  IF ParentIsNotCall(parentType)
  THEN ExpressionStatement(CallExpression(node.name))
  ELSE CallExpression(node.name)

\* the node a literal's enter pushes
TargetLiteral(node) == [type |-> node.type, value |-> node.value]

\* the _context members after CallExpression.enter of the node at path,
\* whose expression goes to index i of the array ref
ContextAfterCall(path, ref, i) == (path :> (ref \o <<i>>)) @@ context

\* an enter method of the transformer's visitor, called with the node at
\* path and its parent
TransformEnter(path, parent) ==
  LET node == NodeAt(ast, path)
      hasContext == parent # Null /\ parent \in DOMAIN context
      ref == context[parent]
      array == ArrayAt(newAst.body, ref)
  IN IF ~hasContext
     THEN \* parent.type of null, or parent._context.push, throws; a call
          \* has set its own _context before
          /\ thrown' = ReadOfUndefined
          /\ stage' = "exit"
          /\ context' = IF node.type = "CallExpression"
                        THEN (path :> Detached) @@ context ELSE context
          /\ UNCHANGED newAst
     ELSE /\ IF node.type = "CallExpression"
             THEN /\ context' = ContextAfterCall(path, ref, Len(array) + 1)
                  /\ newAst' = [newAst EXCEPT !.body =
                       PushAt(@, ref, Wrapped(node, NodeAt(ast, parent).type))]
             ELSE /\ newAst' = [newAst EXCEPT !.body =
                       PushAt(@, ref, TargetLiteral(node))]
                  /\ UNCHANGED context
          /\ UNCHANGED <<thrown, stage>>

\* getTransformedAbstractSyntaxTree(ast) up to its call of traverse
TransformCall ==
  /\ stage = "getTransformedAbstractSyntaxTree"
  /\ newAst' = TargetProgram(<<>>)
  /\ context' = (<<>> :> <<>>) @@ context
  /\ visitor' = TransformVisitor
  /\ tstack' = <<[node |-> <<>>, parent |-> Null, pc |-> "enter", i |-> 1]>>
  /\ stage' = "traverse"
  /\ UNCHANGED <<thrown, log, lexVars, parseVars, code, given>>

----------------------------------------------------------------------------
(* traverse: traverseNode and traverseArray *)

Event(e, f) == [ev |-> e, node |-> f.node, parent |-> f.parent]

\* the call of methods.enter(node, parent), if there is one
TraverseEnter ==
  /\ stage = "traverse" /\ tstack # <<>> /\ TopFrame.pc = "enter"
  /\ LET f == TopFrame
         node == NodeAt(ast, f.node)
     IN /\ tstack' = SetTop([f EXCEPT !.pc = "switch"])
        /\ IF ~HasEnter(visitor, node.type)
           THEN UNCHANGED <<thrown, stage, newAst, context, log>>
           ELSE IF visitor.kind = "transform"
           THEN TransformEnter(f.node, f.parent) /\ UNCHANGED log
           ELSE /\ log' = Append(log, Event("enter", f))
                /\ UNCHANGED <<thrown, stage, newAst, context>>
  /\ UNCHANGED <<visitor, lexVars, parseVars, code, given>>

\* the variants switch (node.type) has a case for
KnownVariants == {"Program", "CallExpression", "NumberLiteral", "StringLiteral"}

\* switch (node.type)
TraverseSwitch ==
  /\ stage = "traverse" /\ tstack # <<>> /\ TopFrame.pc = "switch"
  /\ LET f == TopFrame
         node == NodeAt(ast, f.node)
     IN IF node.type \notin KnownVariants
        THEN /\ thrown' = TypeError(node.type)
             /\ stage' = "exit"
             /\ UNCHANGED tstack
        ELSE /\ tstack' = SetTop([f EXCEPT !.pc =
                  IF node.type \in {"Program", "CallExpression"}
                  THEN "forEach" ELSE "exit"])
             /\ UNCHANGED <<thrown, stage>>
  /\ UNCHANGED <<context, newAst, visitor, log, lexVars, parseVars, code, given>>

\* a traverseArray that hands on its own parent instead of the node
ChildFrameOldParent(f) ==
  [node |-> Append(f.node, f.i), parent |-> f.parent, pc |-> "enter", i |-> 1]

\* the child array.forEach hands to traverseNode at its turn i
ChildFrame(f) ==
  [node |-> Append(f.node, f.i), parent |-> f.node, pc |-> "enter", i |-> 1]

\* traverseArray: one turn of array.forEach, or its end
TraverseArray ==
  /\ stage = "traverse" /\ tstack # <<>> /\ TopFrame.pc = "forEach"
  /\ LET f == TopFrame
         array == Children(NodeAt(ast, f.node))
     IN IF f.i <= Len(array)
        THEN tstack' = Append(SetTop([f EXCEPT !.i = f.i + 1]), ChildFrame(f))
        ELSE tstack' = SetTop([f EXCEPT !.pc = "exit"])
  /\ UNCHANGED <<stage, thrown, context, newAst, visitor, log>>
  /\ UNCHANGED <<lexVars, parseVars, code, given>>

\* the call of methods.exit(node, parent), if there is one, and the return
\* of traverseNode; the return of the first call is the return of traverse
TraverseExit ==
  /\ stage = "traverse" /\ tstack # <<>> /\ TopFrame.pc = "exit"
  /\ LET f == TopFrame
         node == NodeAt(ast, f.node)
     IN log' = IF HasExit(visitor, node.type)
               THEN Append(log, Event("exit", f)) ELSE log
  /\ tstack' = SubSeq(tstack, 1, Len(tstack) - 1)
  /\ stage' = IF Len(tstack) = 1 THEN "traversed" ELSE stage
  /\ UNCHANGED <<thrown, context, newAst, visitor>>
  /\ UNCHANGED <<lexVars, parseVars, code, given>>

traverse == TraverseEnter \/ TraverseSwitch \/ TraverseArray \/ TraverseExit

\* return newAst, and the script calls getGeneratedCode(newAst)
TransformReturn ==
  /\ stage = "traversed" /\ visitor.kind = "transform"
  /\ stage' = "getGeneratedCode"
  /\ UNCHANGED <<thrown, travVars, lexVars, parseVars, code, given>>

getTransformedAbstractSyntaxTree == TransformCall \/ traverse \/ TransformReturn

----------------------------------------------------------------------------
(* getGeneratedCode *)

\* what a call of getGeneratedCode gives: the text it returns, or the
\* exception it throws
Returns(text) == [text |-> text, thrown |-> NoError]
Throws(error) == [text |-> <<>>, thrown |-> error]

RECURSIVE Join(_, _)
\* Array.prototype.join
Join(texts, separator) ==
  IF texts = <<>> THEN <<>>
  ELSE IF Len(texts) = 1 THEN texts[1]
  ELSE texts[1] \o separator \o Join(Tail(texts), separator)

\* results.join(separator) of the results of a map, which the first
\* exception thrown in the map ends
JoinResults(results, separator) ==
  LET failed == {i \in 1..Len(results) : results[i].thrown # NoError} IN
  IF failed # {}
  THEN Throws(results[CHOOSE i \in failed : \A j \in failed : i <= j].thrown)
  ELSE Returns(Join([i \in 1..Len(results) |-> results[i].text], separator))

\* the separators and the marks the generator writes
BodySeparator == <<"\n">>
\* a generator that sets arguments apart by a comma alone
ArgumentSeparatorBare == <<",">>
ArgumentSeparator == <<",", " ">>
StatementEnd == <<";">>
QuoteString(v) == <<Quote>> \o v \o <<Quote>>

RECURSIVE getGeneratedCode(_)
getGeneratedCode(node) ==
  CASE node.type = "Program" ->
         JoinResults([i \in 1..Len(node.body) |-> getGeneratedCode(node.body[i])],
                     BodySeparator)
    [] node.type = "ExpressionStatement" ->
         LET e == getGeneratedCode(node.expression) IN
         IF e.thrown # NoError THEN e ELSE Returns(e.text \o StatementEnd)
    [] node.type = "CallExpression" ->
         LET callee == getGeneratedCode(node.callee)
             args == JoinResults(
                       [i \in 1..Len(node.arguments) |->
                          getGeneratedCode(node.arguments[i])],
                       ArgumentSeparator)
         IN IF callee.thrown # NoError THEN callee
            ELSE IF args.thrown # NoError THEN args
            ELSE Returns(callee.text \o <<"(">> \o args.text \o <<")">>)
    [] node.type = "Identifier" -> Returns(node.name)
    [] node.type = "NumberLiteral" -> Returns(node.value)
    [] node.type = "StringLiteral" -> Returns(QuoteString(node.value))
    [] OTHER -> Throws(TypeError(node.type))

\* const code = getGeneratedCode(newAst); console.log(code)
Generate ==
  /\ stage = "getGeneratedCode"
  /\ LET r == getGeneratedCode(newAst) IN
       /\ thrown' = r.thrown
       /\ code' = r.text
  /\ stage' = "exit"
  /\ UNCHANGED <<lexVars, parseVars, travVars, given>>

----------------------------------------------------------------------------
(* The inputs. *)

RECURSIVE ForestsOfSize(_, _, _)
\* the sequences of trees with n nodes in all, a tree being one of leaves or
\* a call of one of names with such a sequence as params
ForestsOfSize(n, names, leaves) ==
  IF n = 0 THEN {<<>>}
  ELSE UNION {
         {<<t>> \o rest :
            t \in (IF k = 1 THEN leaves ELSE {})
                  \cup {CallNode(name, ps) :
                          name \in names,
                          ps \in ForestsOfSize(k - 1, names, leaves)},
            rest \in ForestsOfSize(n - k, names, leaves)} : k \in 1..n}

ForestsUpTo(n, names, leaves) ==
  UNION {ForestsOfSize(k, names, leaves) : k \in 0..n}

RECURSIVE WriteNode(_, _)
\* the source text of a node, its arguments set apart by sep
WriteNode(node, sep) ==
  CASE node.type = "NumberLiteral" -> node.value
    [] node.type = "StringLiteral" -> <<Quote>> \o node.value \o <<Quote>>
    [] node.type = "CallExpression" ->
         <<"(">> \o node.name
         \o Join([i \in 1..Len(node.params) |-> sep \o WriteNode(node.params[i], sep)],
                 <<>>)
         \o <<")">>

WriteForest(forest, sep) ==
  Join([i \in 1..Len(forest) |-> WriteNode(forest[i], sep)], sep)

add == <<"a", "d", "d">>
subtract == <<"s", "u", "b", "t", "r", "a", "c", "t">>

\* (add 2 (subtract 4 2)) and (add 2 3)
Example1 ==
  <<CallNode(add, <<NumberLiteral(<<"2">>),
                    CallNode(subtract, <<NumberLiteral(<<"4">>),
                                         NumberLiteral(<<"2">>)>>)>>)>>
Example2 ==
  <<CallNode(add, <<NumberLiteral(<<"2">>), NumberLiteral(<<"3">>)>>)>>

GivenForests ==
  ForestsUpTo(MaxNodes, {add},
              {NumberLiteral(<<"2", "4">>), StringLiteral(<<"a", "(">>)})
  \cup {Example1, Example2}

Separators == {<<" ">>, <<" ", "\n">>}

LexAlphabet == {"(", ")", " ", "2", "a", Quote, "+"}

RECURSIVE TextsOfLen(_)
TextsOfLen(n) ==
  IF n = 0 THEN {<<>>}
  ELSE {Append(t, c) : t \in TextsOfLen(n - 1), c \in LexAlphabet}

NotGiven == [wellFormed |-> FALSE, body |-> <<>>, sep |-> <<>>]

\* the input texts: the well-formed ones written from a forest, and every
\* text over LexAlphabet up to MaxLen
Inputs ==
  {[text |-> WriteForest(f, sep),
    given |-> [wellFormed |-> TRUE, body |-> f, sep |-> sep]] :
     f \in GivenForests, sep \in Separators}
  \cup {[text |-> t, given |-> NotGiven] :
          t \in UNION {TextsOfLen(n) : n \in 0..MaxLen}}

----------------------------------------------------------------------------
(* The script: getTokens(input), getAbstractSyntexTree(tokens),            *)
(* getTransformedAbstractSyntaxTree(ast), getGeneratedCode(newAst).        *)

Init ==
  /\ \E inp \in Inputs : input = inp.text /\ given = inp.given
  /\ stage = "getTokens"
  /\ thrown = NoError
  /\ current = 0 /\ tokens = <<>> /\ lpc = "loop"
  /\ char = Undefined /\ type = Undefined /\ value = <<>>
  /\ astCurrent = 0 /\ walkStack = <<>> /\ ast = SourceProgram(<<>>)
  /\ context = <<>> /\ newAst = TargetProgram(<<>>)
  /\ visitor = TransformVisitor /\ tstack = <<>> /\ log = <<>>
  /\ code = <<>>

Next ==
  \/ getTokens
  \/ getAbstractSyntexTree
  \/ getTransformedAbstractSyntaxTree
  \/ Generate

Spec == Init /\ [][Next]_vars

----------------------------------------------------------------------------
(* traverse(ast, visitor) called on its own, with a visitor that records   *)
(* the calls it receives, on trees that may hold a node of a variant the   *)
(* switch has no case for.                                                 *)

\* a node of the target tree, which the source tree has no variant for
UnknownNode == Identifier(<<"x">>)

TraversedTrees ==
  {SourceProgram(f) :
     f \in ForestsUpTo(MaxTravNodes, {<<"f">>},
                       {NumberLiteral(<<"1">>), StringLiteral(<<"s">>),
                        UnknownNode})}

AllVariants == KnownVariants \cup {"Identifier"}

RecordingVisitors ==
  {[kind |-> "record", enter |-> en, exit |-> ex] :
     en \in {AllVariants, {"CallExpression", "Identifier"}, {}},
     ex \in {AllVariants, {"CallExpression", "NumberLiteral"}, {}}}

InitTraverse ==
  /\ ast \in TraversedTrees
  /\ visitor \in RecordingVisitors
  /\ tstack = <<[node |-> <<>>, parent |-> Null, pc |-> "enter", i |-> 1]>>
  /\ stage = "traverse"
  /\ thrown = NoError
  /\ input = <<>> /\ given = NotGiven
  /\ current = 0 /\ tokens = <<>> /\ lpc = "returned"
  /\ char = Undefined /\ type = Undefined /\ value = <<>>
  /\ astCurrent = 0 /\ walkStack = <<>>
  /\ context = <<>> /\ newAst = TargetProgram(<<>>)
  /\ log = <<>>
  /\ code = <<>>

NextTraverse == traverse

SpecTraverse == InitTraverse /\ [][NextTraverse]_vars

----------------------------------------------------------------------------
(* The properties. *)

Front(path) == SubSeq(path, 1, Len(path) - 1)

\* the script ran to its end without an exception
Finished == stage = "exit" /\ thrown = NoError

\* the tokens were returned and parsed, and the tree was returned
Parsed == stage \notin {"getTokens", "getAbstractSyntexTree"} /\ thrown = NoError

\* the tree was transformed and the target tree was returned
Transformed == stage = "getGeneratedCode"

\* the script can take a step: Generate asks for nothing but its stage
CanStep ==
  \/ stage = "getGeneratedCode"
  \/ ENABLED (getTokens \/ getAbstractSyntexTree \/ getTransformedAbstractSyntaxTree)

RECURSIVE Render(_)
\* the target text of a source expression: a call is its name, then its
\* arguments in parentheses set apart by a comma and a space; a number is its
\* digits; a string is in double quotes
Render(node) ==
  CASE node.type = "NumberLiteral" -> node.value
    [] node.type = "StringLiteral" -> <<Quote>> \o node.value \o <<Quote>>
    [] node.type = "CallExpression" ->
         node.name \o <<"(">>
         \o Join([i \in 1..Len(node.params) |-> Render(node.params[i])], <<",", " ">>)
         \o <<")">>

\* the target text of a sequence of top-level calls
RenderCalls(forest) ==
  Join([i \in 1..Len(forest) |-> Render(forest[i]) \o <<";">>], <<"\n">>)

OnlyCalls(forest) == \A i \in 1..Len(forest) : forest[i].type = "CallExpression"

Text1 == <<"(", "a", "d", "d", " ", "2", " ", "(", "s", "u", "b", "t", "r", "a", "c", "t", " ", "4", " ", "2", ")", ")">>
Code1 == <<"a", "d", "d", "(", "2", ",", " ", "s", "u", "b", "t", "r", "a", "c", "t", "(", "4", ",", " ", "2", ")", ")", ";">>
Text2 == <<"(", "a", "d", "d", " ", "2", " ", "3", ")">>
Code2 == <<"a", "d", "d", "(", "2", ",", " ", "3", ")", ";">>

\* C1: for a well-formed source text whose top-level entries are calls, the
\* script never throws, never stops before its end, and ends with code the
\* text in which each call is name(arguments joined by ", "), numbers are
\* verbatim, strings are in double quotes, each top-level call is followed
\* by ";" and the top-level calls are joined by a newline; (add 2 (subtract
\* 4 2)) gives add(2, subtract(4, 2)); and (add 2 3) gives add(2, 3);
C1_PipelineRendersCalls ==
  /\ (given.wellFormed /\ OnlyCalls(given.body)) =>
        /\ thrown = NoError
        /\ stage # "exit" => CanStep
        /\ stage = "exit" => code = RenderCalls(given.body)
  /\ (input = Text1 /\ stage = "exit") => (thrown = NoError /\ code = Code1)
  /\ (input = Text2 /\ stage = "exit") => (thrown = NoError /\ code = Code2)

C1_Witness ==
  /\ Finished /\ input = Text1 /\ code = Code1
  /\ given.wellFormed /\ given.body = Example1

\* C2: when the string loop of getTokens has reached the end of the input
\* without meeting a closing double quote, getTokens has failed, and the
\* cursor of the string loop never passes the end of the input
C2_UnterminatedStringFails ==
  lpc = "string" =>
    /\ current <= Len(input)
    /\ current = Len(input) => thrown # NoError

\* the input holds only parentheses, whitespace, digits and ASCII letters
PlainInput ==
  \A i \in 1..Len(input) :
    \/ input[i] \in {"(", ")"} \/ WHITESPACE(input[i])
    \/ input[i] \in Digits \/ input[i] \in LowerCase \cup UpperCase

\* the text is the characters input[from] .. input[current - 1]
IsRunEndingAtCursor(text) ==
  /\ Len(text) <= current
  /\ current <= Len(input)
  /\ text = SubSeq(input, current - Len(text) + 1, current)

\* C3: on an input of parentheses, whitespace, digits and ASCII letters the
\* number loop and the name loop stay inside the input, also when the run
\* reaches the end of the input, and the text they gather is exactly the
\* characters of the run scanned so far
C3_RunsStayInsideInput ==
  (PlainInput /\ lpc \in {"number", "name"}) => IsRunEndingAtCursor(value)

TokenKinds == {"paren", "number", "string", "name"}

\* C4: every token getTokens has pushed has a kind in paren, number, string,
\* name
C4_TokenKindsDefined ==
  \A i \in 1..Len(tokens) : tokens[i].type \in TokenKinds

\* C5: getAbstractSyntexTree never reads a member of the undefined value that
\* tokens[current] gives at a cursor outside the token sequence: a token
\* sequence that ends inside a call ends the parse with an error that names
\* an unexpected token or the end of the input
C5_NoReadPastLastToken ==
  ~(thrown = ReadOfUndefined /\ astCurrent >= Len(tokens))

\* C6: getAbstractSyntexTree returns no Program for a token sequence in which
\* an opening parenthesis is directly followed by a number, a string or a
\* parenthesis
C6_CallNeedsName ==
  Parsed =>
    \A k \in 1..(Len(tokens) - 1) :
      IsOpenParen(tokens[k]) => tokens[k + 1].type \notin {"number", "string", "paren"}

RECURSIVE SumOf(_)
SumOf(numbers) ==
  IF numbers = <<>> THEN 0 ELSE numbers[1] + SumOf(Tail(numbers))

RECURSIVE StatementsIn(_)
\* the number of ExpressionStatement nodes in a target tree
StatementsIn(node) ==
  CASE node.type = "Program" ->
         SumOf([i \in 1..Len(node.body) |-> StatementsIn(node.body[i])])
    [] node.type = "ExpressionStatement" -> 1 + StatementsIn(node.expression)
    [] node.type = "CallExpression" ->
         SumOf([i \in 1..Len(node.arguments) |-> StatementsIn(node.arguments[i])])
    [] OTHER -> 0

\* the number of entries of a sequence of nodes that are of a variant
CountOf(nodes, variant) ==
  Cardinality({i \in 1..Len(nodes) : nodes[i].type = variant})

\* no ExpressionStatement is anywhere but directly in the target Program.body
StatementsOnlyAtTop ==
  StatementsIn(newAst) = CountOf(newAst.body, "ExpressionStatement")

\* C7 as stated: the target tree holds as many ExpressionStatement nodes as
\* the source Program.body has direct children, none of them inside the
\* arguments of a call
C7_StatementPerChild ==
  Transformed =>
    /\ StatementsIn(newAst) = Len(ast.body)
    /\ StatementsOnlyAtTop

\* C7 amended: the target tree holds as many ExpressionStatement nodes as the
\* source Program.body has direct children that are CallExpressions, none of
\* them inside the arguments of a call
C7_StatementPerTopLevelCall ==
  Transformed =>
    /\ StatementsIn(newAst) = CountOf(ast.body, "CallExpression")
    /\ StatementsOnlyAtTop

\* a call in a call in a call, beside a top-level literal
C7_Witness ==
  /\ Transformed
  /\ \E i, j \in 1..Len(ast.body) :
       /\ ast.body[i].type = "NumberLiteral"
       /\ ast.body[j].type = "CallExpression"
       /\ \E k \in 1..Len(ast.body[j].params) :
            /\ ast.body[j].params[k].type = "CallExpression"
            /\ \E m \in 1..Len(ast.body[j].params[k].params) :
                 ast.body[j].params[k].params[m].type = "CallExpression"

\* C8: once getTransformedAbstractSyntaxTree has returned, no node of the
\* source tree has a _context
C8_NoContextLeft ==
  Transformed => DOMAIN context = {}

\* C9: for a well-formed input text, getTokens and getAbstractSyntexTree never
\* throw and never stop before they return, the Program returned has the
\* forest the text was written from as its body, and the parser's cursor ends
\* at the number of tokens; an empty token sequence gives an empty body
\* without an error
C9_ParseMirrorsNesting ==
  /\ given.wellFormed =>
       /\ thrown = NoError
       /\ stage \in {"getTokens", "getAbstractSyntexTree"} => CanStep
       /\ Parsed => (ast = SourceProgram(given.body) /\ astCurrent = Len(tokens))
  /\ (tokens = <<>> /\ stage \notin {"getTokens", "getAbstractSyntexTree"}) =>
       (thrown = NoError /\ ast = SourceProgram(<<>>))

C9_Witness ==
  /\ stage = "getTransformedAbstractSyntaxTree"
  /\ given.wellFormed
  /\ ast = SourceProgram(given.body)
  /\ Len(ast.body) = 2
  /\ \E i \in 1..2 :
       /\ ast.body[i].type = "CallExpression"
       /\ Len(ast.body[i].params) = 2
       /\ ast.body[i].params[1].type = "StringLiteral"
       /\ ast.body[i].params[2].type = "CallExpression"

----------------------------------------------------------------------------
(* The order of a traversal. *)

\* the variant of a node has children the switch descends into
HasChildren(node) == node.type \in {"Program", "CallExpression"}

RECURSIVE PathsOf(_)
\* the paths of the nodes of a tree
PathsOf(node) ==
  {<<>>} \cup
  (IF HasChildren(node)
   THEN UNION {{<<i>> \o p : p \in PathsOf(Children(node)[i])} :
                 i \in 1..Len(Children(node))}
   ELSE {})

IsPrefix(p, q) == Len(p) <= Len(q) /\ SubSeq(q, 1, Len(p)) = p
IsAncestor(p, q) == IsPrefix(p, q) /\ p # q

\* p and q are in different subtrees and p's is to the left of q's
IsLeftOf(p, q) ==
  \E k \in 1..Len(p) :
    /\ k <= Len(q)
    /\ SubSeq(p, 1, k - 1) = SubSeq(q, 1, k - 1)
    /\ p[k] < q[k]

\* depth-first order of two calls: enter of a node before every call for a
\* node below it and before its own exit, exit of a node after every call
\* for a node below it, and every call in a subtree before every call in a
\* subtree to its right
ComesBefore(a, b) ==
  \/ a.node = b.node /\ a.ev = "enter" /\ b.ev = "exit"
  \/ IsAncestor(a.node, b.node) /\ a.ev = "enter"
  \/ IsAncestor(b.node, a.node) /\ b.ev = "exit"
  \/ IsLeftOf(a.node, b.node)

ParentOf(path) == IF path = <<>> THEN Null ELSE Front(path)

Recorded(e, path) == \E i \in 1..Len(log) : log[i].ev = e /\ log[i].node = path

UnknownPaths == {p \in PathsOf(ast) : NodeAt(ast, p).type \notin KnownVariants}

\* C10: the calls a visitor receives from traverse are in depth-first order,
\* enter before and exit after the calls for the nodes below, children left
\* to right, no call twice, each for a variant the visitor has the method
\* for and with the node's immediate parent (null for the root); traverse
\* never stops before it returns or throws; when it returns, every node of
\* the tree has had its enter and its exit (where the visitor has them) and
\* no node is of an unknown variant; when it throws, the error is a
\* TypeError naming the variant of a node the switch has no case for
C10_DepthFirstOnce ==
  /\ \A i \in 1..Len(log) :
       /\ log[i].node \in PathsOf(ast)
       /\ log[i].parent = ParentOf(log[i].node)
       /\ NodeAt(ast, log[i].node).type \in
            (IF log[i].ev = "enter" THEN visitor.enter ELSE visitor.exit)
  /\ \A i, j \in 1..Len(log) : i < j => ComesBefore(log[i], log[j])
  /\ stage = "traverse" => ENABLED NextTraverse
  /\ stage = "traversed" =>
       /\ UnknownPaths = {}
       /\ \A p \in PathsOf(ast) :
            /\ HasEnter(visitor, NodeAt(ast, p).type) => Recorded("enter", p)
            /\ HasExit(visitor, NodeAt(ast, p).type) => Recorded("exit", p)
  /\ stage = "exit" =>
       \E p \in UnknownPaths : thrown = TypeError(NodeAt(ast, p).type)
  /\ (UnknownPaths # {} /\ stage # "traverse") => stage = "exit"

\* a traversal that returned after the calls for a Program whose body is a
\* call with a child and, to its right, a second entry
C10_Witness ==
  /\ stage = "traversed"
  /\ visitor.enter = AllVariants /\ visitor.exit = AllVariants
  /\ Len(log) = 2 * Cardinality(PathsOf(ast))
  /\ <<1, 1>> \in PathsOf(ast)
  /\ <<2>> \in PathsOf(ast)

\* a traversal that a node of an unknown variant ended, after its enter
C10_WitnessThrow ==
  /\ stage = "exit"
  /\ thrown = TypeError("Identifier")
  /\ log # <<>>
  /\ log[Len(log)].ev = "enter"
  /\ NodeAt(ast, log[Len(log)].node).type = "Identifier"

=============================================================================
